---------------------------- MODULE Spec2Model ----------------------------
(***************************************************************************)
(* Model of the stock-cutter repository.                                   *)
(*                                                                         *)
(*   src/algorithm.py       class Solver: validation, cutting patterns,    *)
(*                          the waste-minimising integer program and the   *)
(*                          fairness program (both solved by PuLP/CBC).    *)
(*   src/profile_cutter.py  class Cutter: the divisor-restricted           *)
(*                          exhaustive search.                             *)
(*                                                                         *)
(* Lengths are floats in the code (float(value) in _parse_input).  The      *)
(* pattern generator is modelled in binary64, with the rounding of every   *)
(* subtraction, and run on lengths typed with one decimal (PatternSpec).   *)
(* The solver requests (Spec) carry whole-number lengths, on which every   *)
(* subtraction, product and comparison of lengths the code makes is exact, *)
(* so their patterns and wastes are held as integers.  np.var divides, so  *)
(* it is computed in binary64 with its roundings.                          *)
(*                                                                         *)
(* The MILP backend (problem.solve()) is modelled by its contract: status  *)
(* Optimal with any one optimal assignment when the program has a feasible *)
(* point, Infeasible otherwise; or, for either solve, one of the other     *)
(* statuses of pulp's table, after which the variables hold any value in   *)
(* their bounds or none.                                                   *)
(***************************************************************************)
EXTENDS Integers, Sequences, FiniteSets

\* ------------------------------------------------------------------ bounds
MaxStock == 3
MaxLen == 2
MaxQty == 2
MaxDemandLen == 2
MaxDemandQty == 5
\* The Cutter's forms are wider: its choice between tuples of equal variance
\* shows from lengths up to 4, quantities up to 3 and 13 demanded pieces.
MaxCutLen == 4
MaxCutQty == 3
MaxCutDemandQty == 13
\* Decimal lengths for the pattern generator: up to 1.2 in tenths.
MaxTenths == 12
MaxDecimalStock == 2

\* ------------------------------------------------------------- messages
\* The code's messages are Russian strings; each is named by what it says.
MsgOK == "OK"
MsgNegative == "negative numbers are not allowed"
MsgEmptyStock == "the stock is empty"
MsgEmptyOrder == "the order is empty"
MsgImpossible == "cutting impossible, not enough stock"

VARIABLES
    user_input,        \* the request: stock entries and the demand pair
    stock_lengths,     \* Solver._stock_lengths
    stock_quantities,  \* Solver._stock_quantities
    demand_length,     \* Solver._demand_length
    demand_quantity,   \* Solver._demand_quantity
    message,           \* what _validate_data returned ("" before it ran)
    patterns,          \* Solver._patterns
    waste_status,      \* status of the waste-minimising solve ("" before)
    min_waste,         \* what _find_min_waste returned
    uniform_status,    \* status of the fairness solve ("" before)
    x,                 \* what the variables x[i][j] hold after the fairness solve
    d,                 \* the distances d of the point an Optimal fairness solve found
    result,            \* what solve() returned (or the exception it raised)
    calls,             \* the methods solve() has executed, in order
    pc,                \* position inside solve()
    form,              \* the request handed to Cutter(user_input)
    stock,             \* Cutter._stock: the dict as its items in insertion order
    demand,            \* Cutter._demand: its single item
    priority,          \* Cutter._priority
    errors,            \* what Cutter._validate_data returned (<<>> for None)
    answer,            \* what Cutter._process returned
    output,            \* what Cutter.calculate returned
    cpc,               \* position of the Cutter request
    decimal_input,     \* lengths typed with one decimal, in tenths
    float_patterns,    \* what _make_cutting_patterns returns for them
    ppc                \* position of the pattern request

vars == <<user_input, stock_lengths, stock_quantities, demand_length,
          demand_quantity, message, patterns, waste_status, min_waste,
          uniform_status, x, d, result, calls, pc,
          form, stock, demand, priority, errors, answer, output, cpc,
          decimal_input, float_patterns, ppc>>

solver_vars == <<user_input, stock_lengths, stock_quantities, demand_length,
                 demand_quantity, message, patterns, waste_status, min_waste,
                 uniform_status, x, d, result, calls, pc>>

cutter_vars == <<form, stock, demand, priority, errors, answer, output, cpc>>

pattern_vars == <<decimal_input, float_patterns, ppc>>

\* ------------------------------------------------------------- helpers
RECURSIVE SumSeq(_)
SumSeq(s) == IF s = <<>> THEN 0 ELSE s[1] + SumSeq(Tail(s))

Abs(a) == IF a < 0 THEN -a ELSE a

SetMin(S) == CHOOSE m \in S : \A o \in S : m <= o

\* ------------------------------------------------------- _parse_input
ParseLengths(ui) == [i \in 1..Len(ui.stock) |-> ui.stock[i][1]]

ParseQuantities(ui) == [i \in 1..Len(ui.stock) |-> ui.stock[i][2]]

\* ------------------------------------------------------ _validate_data
\* The loop over zip(lengths, quantities): the first negative number ends it
\* with the message; a zero quantity is skipped; the rest is kept in order.
RECURSIVE ValidateLoop(_, _, _, _, _)
ValidateLoop(ls, qs, i, new_ls, new_qs) ==
    IF i > Len(ls)
    THEN [message |-> MsgOK, lengths |-> new_ls, quantities |-> new_qs]
    ELSE IF ls[i] < 0 \/ qs[i] < 0
         THEN [message |-> MsgNegative, lengths |-> ls, quantities |-> qs]
         ELSE IF qs[i] > 0
              THEN ValidateLoop(ls, qs, i + 1, Append(new_ls, ls[i]), Append(new_qs, qs[i]))
              ELSE ValidateLoop(ls, qs, i + 1, new_ls, new_qs)

\* Mutant: the test for an empty order left out.
ValidateDataNoEmptyOrder(ls, qs, dl, dq) ==
    LET loop == ValidateLoop(ls, qs, 1, <<>>, <<>>) IN
    IF loop.message # MsgOK THEN loop
    ELSE IF Len(loop.lengths) = 0
         THEN [message |-> MsgEmptyStock, lengths |-> ls, quantities |-> qs]
         ELSE IF dl < 0 \/ dq < 0
              THEN [loop EXCEPT !.message = MsgNegative]
              ELSE loop

ValidateData(ls, qs, dl, dq) ==
    LET loop == ValidateLoop(ls, qs, 1, <<>>, <<>>) IN
    IF loop.message # MsgOK THEN loop
    ELSE IF Len(loop.lengths) = 0
         THEN [message |-> MsgEmptyStock, lengths |-> ls, quantities |-> qs]
         ELSE IF dl < 0 \/ dq < 0
              THEN [loop EXCEPT !.message = MsgNegative]
              ELSE IF dl = 0 \/ dq = 0
                   THEN [loop EXCEPT !.message = MsgEmptyOrder]
                   ELSE loop

\* ------------------------------------------------------ binary64 numbers
\* The code computes in IEEE-754 binary64: every result is rounded to 53
\* significant bits, round half to even.
\*
\* A non-negative double is held as the natural number value * 2^(13 * 6),
\* written in limbs of 13 bits, least significant limb first (<<>> is 0).
\* Every double that occurs here is 0 or at least 2^-25, so it is a
\* multiple of 2^-78 and the representation is exact.
LimbBits == 13
LimbBase == 2^LimbBits
FracLimbs == 6
MantissaBits == 53

Zeros(k) == [i \in 1..k |-> 0]

Limb(a, i) == IF i <= Len(a) THEN a[i] ELSE 0

RECURSIVE Trim(_)
Trim(a) == IF a = <<>> \/ a[Len(a)] # 0 THEN a ELSE Trim(SubSeq(a, 1, Len(a) - 1))

RECURSIVE IntLimbs(_)
IntLimbs(v) == IF v = 0 THEN <<>> ELSE <<v % LimbBase>> \o IntLimbs(v \div LimbBase)

RECURSIVE AddLoop(_, _, _, _)
AddLoop(a, b, i, carry) ==
    IF i > Len(a) /\ i > Len(b)
    THEN IF carry = 0 THEN <<>> ELSE <<carry>>
    ELSE LET s == Limb(a, i) + Limb(b, i) + carry IN
         <<s % LimbBase>> \o AddLoop(a, b, i + 1, s \div LimbBase)

BigAdd(a, b) == AddLoop(a, b, 1, 0)

\* a - b for a >= b
RECURSIVE SubLoop(_, _, _, _)
SubLoop(a, b, i, borrow) ==
    IF i > Len(a) THEN <<>>
    ELSE LET s == a[i] - Limb(b, i) - borrow IN
         IF s < 0 THEN <<s + LimbBase>> \o SubLoop(a, b, i + 1, 1)
         ELSE <<s>> \o SubLoop(a, b, i + 1, 0)

BigSub(a, b) == Trim(SubLoop(a, b, 1, 0))

RECURSIVE LessFrom(_, _, _)
LessFrom(a, b, i) ==
    IF i = 0 THEN FALSE
    ELSE IF a[i] # b[i] THEN a[i] < b[i] ELSE LessFrom(a, b, i - 1)

BigLess(a, b) == Len(a) < Len(b) \/ (Len(a) = Len(b) /\ LessFrom(a, b, Len(a)))

RECURSIVE MulSmallLoop(_, _, _, _)
MulSmallLoop(a, k, i, carry) ==
    IF i > Len(a) THEN IF carry = 0 THEN <<>> ELSE <<carry>>
    ELSE LET p == a[i] * k + carry IN
         <<p % LimbBase>> \o MulSmallLoop(a, k, i + 1, p \div LimbBase)

BigMulSmall(a, k) == Trim(MulSmallLoop(a, k, 1, 0))

RECURSIVE MulLoop(_, _, _)
MulLoop(a, b, j) ==
    IF j > Len(b) THEN <<>>
    ELSE BigAdd(Zeros(j - 1) \o BigMulSmall(a, b[j]), MulLoop(a, b, j + 1))

BigMul(a, b) == Trim(MulLoop(a, b, 1))

\* quotient and remainder of a by a divisor below LimbBase
RECURSIVE DivLoop(_, _, _, _)
DivLoop(a, k, i, rem) ==
    IF i = 0 THEN [q |-> <<>>, r |-> rem]
    ELSE LET cur == rem * LimbBase + a[i]
             rest == DivLoop(a, k, i - 1, cur % k)
         IN [q |-> rest.q \o <<cur \div k>>, r |-> rest.r]

BigDivSmall(a, k) == LET dv == DivLoop(a, k, Len(a), 0) IN [q |-> Trim(dv.q), r |-> dv.r]

RECURSIVE SmallBits(_)
SmallBits(v) == IF v = 0 THEN 0 ELSE 1 + SmallBits(v \div 2)

BigBits(a) == IF a = <<>> THEN 0 ELSE (Len(a) - 1) * LimbBits + SmallBits(a[Len(a)])

\* a shifted right by s bits; sticky says whether a nonzero bit was lost
ShiftRight(a, s) ==
    LET drop == s \div LimbBits
        dv == BigDivSmall(SubSeq(a, drop + 1, Len(a)), 2^(s % LimbBits))
    IN [q |-> dv.q, sticky |-> dv.r # 0 \/ \E i \in 1..drop : Limb(a, i) # 0]

ShiftLeft(a, s) ==
    IF a = <<>> THEN <<>> ELSE Zeros(s \div LimbBits) \o BigMulSmall(a, 2^(s % LimbBits))

\* The double nearest to a (plus a lost fraction when inexact), ties to even.
Round53(a, inexact) ==
    IF BigBits(a) <= MantissaBits THEN a
    ELSE LET s == BigBits(a) - MantissaBits
             sh == ShiftRight(a, s - 1)
             half == sh.q[1] % 2 = 1
             q == BigDivSmall(sh.q, 2).q
             up == half /\ (sh.sticky \/ inexact \/ q[1] % 2 = 1)
         IN ShiftLeft(IF up THEN BigAdd(q, <<1>>) ELSE q, s)

\* an integer as a double
FromInt(v) == IF v = 0 THEN <<>> ELSE Zeros(FracLimbs) \o IntLimbs(v)

\* a / n in binary64, n a positive integer
TrueDivide(a, n) == LET dv == BigDivSmall(a, n) IN Round53(dv.q, dv.r # 0)

\* a - b in binary64 for non-negative a and b: the sign and the magnitude
FloatSubtract(a, b) ==
    IF BigLess(a, b)
    THEN [negative |-> TRUE, magnitude |-> Round53(BigSub(b, a), FALSE)]
    ELSE [negative |-> FALSE, magnitude |-> Round53(BigSub(a, b), FALSE)]

\* float(value) for a decimal with one digit after the point, given in
\* tenths: the double nearest to tenths / 10
ParseFloat(tenths) == TrueDivide(FromInt(tenths), 10)

\* a double that is a whole number, as that number
RECURSIVE LimbsInt(_)
LimbsInt(a) == IF a = <<>> THEN 0 ELSE a[1] + LimbBase * LimbsInt(Tail(a))

WholeNumber(a) == LimbsInt(SubSeq(a, FracLimbs + 1, Len(a)))

\* ------------------------------------------------ _make_cutting_patterns
Pattern(pieces_count, waste) == [pieces_count |-> pieces_count, waste |-> waste]

\* while waste >= 0
WasteLoopGuard(waste) == ~waste.negative

\* The loop of one stock length: waste is a double with its sign, dl the
\* demand length; each "waste -= demand_length" is one rounded subtraction.
RECURSIVE ItemPatterns(_, _, _, _)
ItemPatterns(item_patterns, pieces_count, waste, dl) ==
    IF WasteLoopGuard(waste)
    THEN ItemPatterns(Append(item_patterns, Pattern(pieces_count, waste.magnitude)),
                      pieces_count + 1, FloatSubtract(waste.magnitude, dl), dl)
    ELSE item_patterns

\* ls and dl are doubles
MakeCuttingPatterns(ls, dl) ==
    [i \in 1..Len(ls) |-> ItemPatterns(<<>>, 1, FloatSubtract(ls[i], dl), dl)]

\* _make_cutting_patterns on whole-number lengths: every waste is then a
\* whole number too, and is written as that number.
WholeCuttingPatterns(ls, dl) ==
    LET pats == MakeCuttingPatterns([i \in 1..Len(ls) |-> FromInt(ls[i])], FromInt(dl)) IN
    [i \in 1..Len(ls) |->
       [k \in 1..Len(pats[i]) |->
          Pattern(pats[i][k].pieces_count, WholeNumber(pats[i][k].waste))]]

\* ------------------------------------------------------ the two programs
\* x[i][j]: an integer variable per pattern, lowBound 0, upBound the stock's
\* quantity (lines 116-123 and 194-201).
VarRows(item_patterns, qty) == [1..Len(item_patterns) -> 0..qty]

\* Second constraint: lpSum(x[i]) <= stock_quantities[i].
Capacity(row, qty) == SumSeq(row) <= qty

\* Every assignment of the rows 1..k within the variable bounds and the
\* capacity constraints.
RECURSIVE CapacityPlans(_, _, _)
CapacityPlans(pats, qs, k) ==
    IF k = 0 THEN {<<>>}
    ELSE {Append(p, r) : p \in CapacityPlans(pats, qs, k - 1),
                         r \in {row \in VarRows(pats[k], qs[k]) : Capacity(row, qs[k])}}

RowPieces(item_patterns, row) ==
    SumSeq([j \in 1..Len(item_patterns) |-> item_patterns[j].pieces_count * row[j]])

RowWaste(item_patterns, row) ==
    SumSeq([j \in 1..Len(item_patterns) |-> item_patterns[j].waste * row[j]])

TotalPieces(pats, xx) == SumSeq([i \in 1..Len(pats) |-> RowPieces(pats[i], xx[i])])

TotalWaste(pats, xx) == SumSeq([i \in 1..Len(pats) |-> RowWaste(pats[i], xx[i])])

Used(xx, i) == SumSeq(xx[i])

\* Mutant: demand met with "at least" instead of exactly.
DemandAtLeast(pats, xx, dq) == TotalPieces(pats, xx) >= dq

\* Third constraint: total_pieces == demand_quantity.
DemandExact(pats, xx, dq) == TotalPieces(pats, xx) = dq

\* The feasible set of the program "Waste_minimization".
WasteFeasible(pats, qs, dq) ==
    {xx \in CapacityPlans(pats, qs, Len(pats)) : DemandExact(pats, xx, dq)}

\* problem.solve(): the backend's status for a bounded integer program.
LpStatusOf(feasible) == IF feasible = {} THEN "Infeasible" ELSE "Optimal"

\* The statuses of pulp's LpStatus table that the code's tests do not
\* name: a backend that stops or fails hands back one of them, whatever the
\* program.
OtherStatuses == {"Not Solved", "Unbounded", "Undefined"}

AllStatuses == {"Optimal", "Infeasible"} \cup OtherStatuses

\* What the variables x[i][j] can hold after a solve that did not end
\* Optimal: any value within each variable's bounds (int() of it is read).
RECURSIVE ValuesHeld(_, _, _)
ValuesHeld(pats, qs, k) ==
    IF k = 0 THEN {<<>>}
    ELSE {Append(p, r) : p \in ValuesHeld(pats, qs, k - 1), r \in VarRows(pats[k], qs[k])}

\* What _find_min_waste returns when it falls off its end.
None == "None"

\* lp.value(problem.objective) at the optimum of "Waste_minimization".
WasteObjective(pats, qs, dq) ==
    SetMin({TotalWaste(pats, xx) : xx \in WasteFeasible(pats, qs, dq)})

\* With no pattern at all, x is empty, total_pieces stays the int 0 and
\* "total_pieces == demand_quantity" is the Python bool False, which
\* LpProblem.__iadd__ refuses with a TypeError (demand_quantity > 0 here).
HasVariables(pats) == \E i \in 1..Len(pats) : pats[i] # <<>>

\* Fourth constraint: total_waste == min_waste.
WasteFixed(pats, xx, mw) == TotalWaste(pats, xx) = mw

\* combinations(range(len(used_items)), 2)
PairSet(n) == {p \in (1..n) \X (1..n) : p[1] < p[2]}

\* d is a free continuous variable; the window holds every value a
\* difference of two usages can take.
DRange == (0 - MaxQty - 1)..(MaxQty + 1)

\* d >= used_items[i] - used_items[j] and d >= used_items[j] - used_items[i]
DistanceBound(dv, a, b) == dv >= a - b /\ dv >= b - a

DistanceOK(dd, xx) ==
    \A p \in DOMAIN dd : DistanceBound(dd[p], Used(xx, p[1]), Used(xx, p[2]))

UniformFeasibleX(pats, qs, dq, mw) ==
    {xx \in CapacityPlans(pats, qs, Len(pats)) :
        DemandExact(pats, xx, dq) /\ WasteFixed(pats, xx, mw)}

\* The feasible set of the program "Uniform_solution": points (x, d).
UniformFeasible(pats, qs, dq, mw) ==
    UNION {{[x |-> xx, d |-> dd] :
              dd \in {f \in [PairSet(Len(pats)) -> DRange] : DistanceOK(f, xx)}} :
           xx \in UniformFeasibleX(pats, qs, dq, mw)}

RECURSIVE SumFn(_)
SumFn(f) ==
    IF DOMAIN f = {} THEN 0
    ELSE LET p == CHOOSE q \in DOMAIN f : TRUE IN
         f[p] + SumFn([q \in DOMAIN f \ {p} |-> f[q]])

\* avg_distance = lpSum(distances) / len(used_items); the number of stock
\* entries is positive and the same for every point, so points are ordered
\* by the numerator.
AvgDistanceNumerator(sol) == SumFn(sol.d)

UniformOptimal(pats, qs, dq, mw) ==
    LET feasible == UniformFeasible(pats, qs, dq, mw)
        best == SetMin({AvgDistanceNumerator(s) : s \in feasible}) IN
    {s \in feasible : AvgDistanceNumerator(s) = best}

\* ------------------------------------------------------ the output text
RECURSIVE FormatRow(_, _, _, _)
FormatRow(item_patterns, row, j, out) ==
    IF j > Len(item_patterns) THEN out
    ELSE FormatRow(item_patterns, row, j + 1,
           IF row[j] > 0
           THEN Append(out, [line |-> "plan",
                             pieces_count |-> item_patterns[j].pieces_count,
                             waste |-> item_patterns[j].waste,
                             repetitions |-> row[j]])
           ELSE out)

RECURSIVE FormatOutput(_, _, _, _, _)
FormatOutput(ls, pats, xx, i, out) ==
    IF i > Len(xx) THEN out
    ELSE FormatOutput(ls, pats, xx, i + 1,
           FormatRow(pats[i], xx[i], 1,
             IF Used(xx, i) > 0
             THEN Append(out, [line |-> "stock", length |-> ls[i]])
             ELSE out))

TotalUsedLength(ls, xx) == SumSeq([i \in 1..Len(ls) |-> ls[i] * Used(xx, i)])

\* ===================================================== profile_cutter.py
\* ---------------------------------------------------- _to_dictionaries
\* stock[length] = qty on a dict: a length seen before keeps its place and
\* takes the new quantity, a new length goes to the end.
DictSet(items, key, value) ==
    IF \E k \in 1..Len(items) : items[k][1] = key
    THEN [k \in 1..Len(items) |-> IF items[k][1] = key THEN <<key, value>> ELSE items[k]]
    ELSE Append(items, <<key, value>>)

RECURSIVE StockDict(_, _, _)
StockDict(entries, k, items) ==
    IF k > Len(entries) THEN items
    ELSE StockDict(entries, k + 1,
           IF entries[k][2] # 0
           THEN DictSet(items, entries[k][1], entries[k][2])
           ELSE items)

\* ------------------------------------------------------ _priority_stock
Divides(stock_prof, demanded_profile) == stock_prof % demanded_profile = 0

PriorityStock(items, demanded_profile) ==
    SelectSeq(items, LAMBDA it : Divides(it[1], demanded_profile))

\* ------------------------------------------------------- _validate_data
ErrNegativeStock == "negative stock quantity"
ErrZeroDemand == "demand quantity must be greater than 0"
ErrNegativeDemand == "negative demand quantity"
ErrNotEnough == "not enough profile in stock"
NotFound == "no waste-free solution found"

TotalLength(items) == SumSeq([k \in 1..Len(items) |-> items[k][1] * items[k][2]])

CutterValidate(items, dem) ==
    LET stock_errors ==
            [k \in 1..Len(SelectSeq(items, LAMBDA it : it[2] < 0)) |-> ErrNegativeStock]
        demand_errors ==
            (IF dem[2] = 0 THEN <<ErrZeroDemand>> ELSE <<>>)
            \o (IF dem[2] < 0 THEN <<ErrNegativeDemand>> ELSE <<>>)
        errs == stock_errors \o demand_errors IN
    IF errs # <<>> THEN errs
    ELSE IF TotalLength(items) < dem[1] * dem[2] THEN <<ErrNotEnough>>
         ELSE <<>>

\* ------------------------------------------------------ _get_var_ranges
Ceil(a, b) == 0 - ((0 - a) \div b)

Min(a, b) == IF a < b THEN a ELSE b

\* range(0, stop) as the sequence 0, 1, ..., stop - 1
Range0(stop) == [k \in 1..(IF stop > 0 THEN stop ELSE 0) |-> k - 1]

\* Mutant: the range stops one short (the "+ 1" left out).
RangeStopShort(qty, target, l) == Min(qty, Ceil(target, l))

RangeStop(qty, target, l) == Min(qty, Ceil(target, l)) + 1

GetVarRanges(prio, target) ==
    [k \in 1..Len(prio) |-> Range0(RangeStop(prio[k][2], target, prio[k][1]))]

\* ------------------------------------------------------ _solve_equation
Prepend(v, tuples) == [n \in 1..Len(tuples) |-> <<v>> \o tuples[n]]

RECURSIVE ProductFrom(_, _, _)
ProductFrom(first_range, k, rest) ==
    IF k > Len(first_range) THEN <<>>
    ELSE Prepend(first_range[k], rest) \o ProductFrom(first_range, k + 1, rest)

\* itertools.product(*ranges): the last range runs fastest.
RECURSIVE Product(_)
Product(ranges) ==
    IF ranges = <<>> THEN << <<>> >>
    ELSE ProductFrom(Head(ranges), 1, Product(Tail(ranges)))

Dot(values, coeffs) == SumSeq([k \in 1..Len(coeffs) |-> values[k] * coeffs[k]])

SolveEquation(prio, target) ==
    LET coeffs == [k \in 1..Len(prio) |-> prio[k][1]] IN
    SelectSeq(Product(GetVarRanges(prio, target)),
              LAMBDA values : Dot(values, coeffs) = target)

\* ------------------------------------------------------------- np.var
\* np.var(sol) in binary64: the mean is one rounded division, and every
\* deviation, square, partial sum and the final division is rounded.  Two
\* tuples whose exact variances are equal can therefore get different
\* doubles, and the comparison in _choose_best_solution sees that
\* difference.  Only magnitudes are kept: the sign of a deviation
\* disappears when it is squared.
\* |v - arrmean| in binary64
Deviation(v, arrmean) ==
    LET xv == FromInt(v) IN
    Round53(IF BigLess(xv, arrmean) THEN BigSub(arrmean, xv) ELSE BigSub(xv, arrmean),
            FALSE)

\* dev * dev in binary64
Square(dev) ==
    LET p == Round53(BigMul(dev, dev), FALSE) IN SubSeq(p, FracLimbs + 1, Len(p))

\* a + b in binary64
FloatAdd(a, b) == Round53(BigAdd(a, b), FALSE)

\* res += a[i] for i from k to last, in that order
RECURSIVE AddFrom(_, _, _, _)
AddFrom(sq, k, last, acc) ==
    IF k > last THEN acc ELSE AddFrom(sq, k + 1, last, FloatAdd(acc, sq[k]))

\* r[j] += a[i + j] for i = 8, 16, ... : one of the eight accumulators
RECURSIVE AddStride(_, _, _, _)
AddStride(sq, k, last, acc) ==
    IF k > last THEN acc ELSE AddStride(sq, k + 8, last, FloatAdd(acc, sq[k]))

PwBlocksize == 128

\* numpy's pairwise summation of the n values from sq[lo] on: fewer than 8
\* are added from the first to the last; up to 128 go into eight
\* accumulators that are added as a tree, the n % 8 last values after it;
\* more are split in two halves.
RECURSIVE PairwiseSum(_, _, _)
PairwiseSum(sq, lo, n) ==
    IF n < 8 THEN AddFrom(sq, lo, lo + n - 1, <<>>)
    ELSE IF n <= PwBlocksize
    THEN LET full == n - (n % 8)
             r == [j \in 1..8 |-> AddStride(sq, lo + j + 7, lo + full - 1, sq[lo + j - 1])]
             res == FloatAdd(FloatAdd(FloatAdd(r[1], r[2]), FloatAdd(r[3], r[4])),
                             FloatAdd(FloatAdd(r[5], r[6]), FloatAdd(r[7], r[8])))
         IN AddFrom(sq, lo + full, lo + n - 1, res)
    ELSE LET n2 == (n \div 2) - ((n \div 2) % 8) IN
         FloatAdd(PairwiseSum(sq, lo, n2), PairwiseSum(sq, lo + n2, n - n2))

\* np.add.reduce over the squares
FloatSum(sq) == PairwiseSum(sq, 1, Len(sq))

\* np.var(sol): mean((sol - mean(sol))^2), every step in binary64
NpVar(sol) ==
    LET n == Len(sol)
        arrmean == TrueDivide(FromInt(SumSeq(sol)), n)
        sq == [k \in 1..n |-> Square(Deviation(sol[k], arrmean))]
    IN TrueDivide(FloatSum(sq), n)

\* -------------------------------------------------- _choose_best_solution
\* best is <<>> for float('inf') and <<v>> for the best variance so far.
Better(curr, best) == best = <<>> \/ BigLess(curr, best[1])

RECURSIVE ChooseLoop(_, _, _, _)
ChooseLoop(solutions, k, best, res) ==
    IF k > Len(solutions) THEN res
    ELSE LET curr == NpVar(solutions[k]) IN
         IF Better(curr, best)
         THEN ChooseLoop(solutions, k + 1, <<curr>>, solutions[k])
         ELSE ChooseLoop(solutions, k + 1, best, res)

ChooseBestSolution(solutions) == ChooseLoop(solutions, 1, <<>>, <<>>)

\* --------------------------------------------------------------- _process
Process(prio, dem) == ChooseBestSolution(SolveEquation(prio, dem[1] * dem[2]))

\* --------------------------------------------------------- _format_output
CutterFormat(prio, dem, ans) ==
    IF Len(ans) = 0 THEN [kind |-> "text", text |-> NotFound]
    ELSE [kind |-> "plan",
          lines |-> [k \in 1..Min(Len(prio), Len(ans)) |->
                       [length |-> prio[k][1],
                        pieces |-> prio[k][1] \div dem[1],
                        times |-> ans[k]]]]

SolverIdle ==
    /\ user_input = [stock |-> <<>>, demand_len |-> 0, demand_qty |-> 0]
    /\ stock_lengths = <<>>
    /\ stock_quantities = <<>>
    /\ demand_length = 0
    /\ demand_quantity = 0
    /\ message = ""
    /\ patterns = <<>>
    /\ waste_status = ""
    /\ min_waste = 0
    /\ uniform_status = ""
    /\ x = <<>>
    /\ d = <<>>
    /\ result = [kind |-> "none"]
    /\ calls = <<>>
    /\ pc = "idle"

CutterIdle ==
    /\ form = [stock |-> <<>>, demand_len |-> 0, demand_qty |-> 0]
    /\ stock = <<>>
    /\ demand = <<0, 0>>
    /\ priority = <<>>
    /\ errors = <<>>
    /\ answer = <<>>
    /\ output = [kind |-> "none"]
    /\ cpc = "idle"

PatternIdle ==
    /\ decimal_input = [stock |-> <<>>, demand_len |-> 0]
    /\ float_patterns = <<>>
    /\ ppc = "idle"

Init ==
    /\ user_input \in
         [stock : UNION {[1..n -> (-1..MaxLen) \X (-1..MaxQty)] : n \in 0..MaxStock},
          demand_len : -1..MaxDemandLen,
          demand_qty : -1..MaxDemandQty]
    /\ stock_lengths = ParseLengths(user_input)
    /\ stock_quantities = ParseQuantities(user_input)
    /\ demand_length = user_input.demand_len
    /\ demand_quantity = user_input.demand_qty
    /\ message = ""
    /\ patterns = <<>>
    /\ waste_status = ""
    /\ min_waste = 0
    /\ uniform_status = ""
    /\ x = <<>>
    /\ d = <<>>
    /\ result = [kind |-> "none"]
    /\ calls = <<>>
    /\ pc = "validate"
    /\ CutterIdle
    /\ PatternIdle

Validate ==
    /\ pc = "validate"
    /\ LET v == ValidateData(stock_lengths, stock_quantities, demand_length, demand_quantity) IN
       /\ message' = v.message
       /\ stock_lengths' = v.lengths
       /\ stock_quantities' = v.quantities
       /\ IF v.message # MsgOK
          THEN /\ result' = [kind |-> "message", text |-> v.message]
               /\ pc' = "done"
          ELSE /\ result' = result
               /\ pc' = "patterns"
    /\ calls' = Append(calls, "_validate_data")
    /\ UNCHANGED <<user_input, demand_length, demand_quantity, patterns,
                   waste_status, min_waste, uniform_status, x, d>>
    /\ UNCHANGED cutter_vars
    /\ UNCHANGED pattern_vars

MakePatterns ==
    /\ pc = "patterns"
    /\ patterns' = WholeCuttingPatterns(stock_lengths, demand_length)
    /\ calls' = Append(calls, "_make_cutting_patterns")
    /\ pc' = "min_waste"
    /\ UNCHANGED <<user_input, stock_lengths, stock_quantities, demand_length,
                   demand_quantity, message, waste_status, min_waste,
                   uniform_status, x, d, result>>
    /\ UNCHANGED cutter_vars
    /\ UNCHANGED pattern_vars

\* _find_min_waste, and solve()'s test of what it returned.
FindMinWaste ==
    /\ pc = "min_waste"
    /\ calls' = Append(calls, "_find_min_waste")
    /\ IF ~HasVariables(patterns)
       THEN /\ result' = [kind |-> "TypeError"]
            /\ pc' = "done"
            /\ UNCHANGED <<waste_status, min_waste>>
       ELSE LET feasible == WasteFeasible(patterns, stock_quantities, demand_quantity) IN
            \E status \in {LpStatusOf(feasible)} \cup OtherStatuses :
            /\ waste_status' = status
            /\ IF status = "Optimal"
               THEN /\ min_waste' = WasteObjective(patterns, stock_quantities, demand_quantity)
                    /\ result' = result
                    /\ pc' = "uniform"
               ELSE IF status = "Infeasible"
               THEN /\ min_waste' = -1
                    /\ result' = [kind |-> "message", text |-> MsgImpossible]
                    /\ pc' = "done"
               ELSE \* neither test holds: the function returns None, and
                    \* None == -1 is False in solve()
                    /\ min_waste' = None
                    /\ result' = result
                    /\ pc' = "uniform"
    /\ UNCHANGED <<user_input, stock_lengths, stock_quantities, demand_length,
                   demand_quantity, message, patterns, uniform_status, x, d>>
    /\ UNCHANGED cutter_vars
    /\ UNCHANGED pattern_vars

\* The text built at lines 254-279 from the values xx, as its parts.  With
\* positive min_waste and nothing used, "min_waste / total_used_length"
\* divides by zero.
FormatResult(ls, pats, xx, mw) ==
    IF mw > 0 /\ TotalUsedLength(ls, xx) = 0
    THEN [kind |-> "ZeroDivisionError"]
    ELSE [kind |-> "plan",
          lines |-> FormatOutput(ls, pats, xx, 1, <<>>),
          total_waste |-> mw,
          waste_part |-> IF mw > 0
                         THEN <<mw * 100, TotalUsedLength(ls, xx)>>
                         ELSE <<>>]

\* _find_uniform_solution(min_waste).
\*
\* The program is built and solved (line 241) whatever min_waste is.  With
\* None, "total_waste == None" subtracts None from the expression, which
\* pulp's subInPlace leaves as it is: the fourth constraint reads
\* total_waste == 0.
\*
\* After an Optimal solve the backend hands back any one optimal point; its
\* x is read out and the text is built.
\*
\* After any other status nothing returns: line 249 compares a status name
\* with a status number, which is never equal, so the text is built from
\* whatever the variables hold: a value within the variable's bounds, or
\* no value at all, and then int(None) raises.
\*
\* With min_waste None nothing is returned either way: _clean_float(None)
\* calls round(None, 1), which raises, if int(None) has not raised before.
FindUniformSolution ==
    /\ pc = "uniform"
    /\ calls' = Append(calls, "_find_uniform_solution")
    /\ LET is_none == waste_status \in OtherStatuses
           fixed == IF is_none THEN 0 ELSE min_waste
           feasible == UniformFeasible(patterns, stock_quantities, demand_quantity, fixed) IN
       \E status \in {LpStatusOf(feasible)} \cup OtherStatuses :
       /\ uniform_status' = status
       /\ IF status = "Optimal"
          THEN \E sol \in UniformOptimal(patterns, stock_quantities, demand_quantity, fixed) :
               /\ x' = sol.x
               /\ d' = sol.d
               /\ result' = IF is_none THEN [kind |-> "TypeError"]
                            ELSE FormatResult(stock_lengths, patterns, sol.x, min_waste)
          ELSE \/ /\ result' = [kind |-> "TypeError"]
                  /\ UNCHANGED <<x, d>>
               \/ \E held \in ValuesHeld(patterns, stock_quantities, Len(patterns)) :
                  /\ x' = held
                  /\ d' = d
                  /\ result' = IF is_none THEN [kind |-> "TypeError"]
                               ELSE FormatResult(stock_lengths, patterns, held, min_waste)
    /\ pc' = "done"
    /\ UNCHANGED <<user_input, stock_lengths, stock_quantities, demand_length,
                   demand_quantity, message, patterns, waste_status, min_waste>>
    /\ UNCHANGED cutter_vars
    /\ UNCHANGED pattern_vars

Next == Validate \/ MakePatterns \/ FindMinWaste \/ FindUniformSolution

Spec == Init /\ [][Next]_vars

\* ================================================================ claims
\* What the claims quantify over, stated from their own words: assignments
\* of non-negative integers to the patterns of each stock entry.
ClaimRows(n, qty) == {row \in [1..n -> 0..qty] : SumSeq(row) <= qty}

RECURSIVE ClaimCapacityPlans(_, _, _)
ClaimCapacityPlans(pats, qs, k) ==
    IF k = 0 THEN {<<>>}
    ELSE {Append(p, r) : p \in ClaimCapacityPlans(pats, qs, k - 1),
                         r \in ClaimRows(Len(pats[k]), qs[k])}

ClaimPieces(pats, xx) ==
    SumSeq([i \in 1..Len(pats) |->
              SumSeq([j \in 1..Len(pats[i]) |-> pats[i][j].pieces_count * xx[i][j]])])

ClaimWaste(pats, xx) ==
    SumSeq([i \in 1..Len(pats) |->
              SumSeq([j \in 1..Len(pats[i]) |-> pats[i][j].waste * xx[i][j]])])

\* Capacity and exact demand.
ClaimFeasiblePlans(pats, qs, dq) ==
    {xx \in ClaimCapacityPlans(pats, qs, Len(pats)) : ClaimPieces(pats, xx) = dq}

\* Sum over unordered pairs of distinct stock indices of |used[i] - used[k]|.
ClaimSpread(xx) ==
    LET n == Len(xx)
        row == [i \in 1..n |->
                  SumSeq([k \in 1..n |->
                            IF i < k THEN Abs(SumSeq(xx[i]) - SumSeq(xx[k])) ELSE 0])] IN
    SumSeq(row)

PlanFeasible ==
    /\ Len(x) = Len(patterns)
    /\ \A i \in 1..Len(x) : Len(x[i]) = Len(patterns[i])
    /\ \A i \in 1..Len(x) : \A j \in 1..Len(x[i]) : x[i][j] >= 0
    /\ ClaimPieces(patterns, x) = demand_quantity
    /\ \A i \in 1..Len(x) : SumSeq(x[i]) <= stock_quantities[i]

\* C1: every cutting plan solve() returns is feasible: the pieces it cuts sum
\* to the demand quantity exactly, and for every stock entry the bars it uses
\* are at most the quantity available.
C1_PlanFeasible == result.kind = "plan" => PlanFeasible

\* The part of C1 the code keeps: a plan returned after an Optimal fairness
\* solve is feasible.
C1_OptimalPlanFeasible ==
    (result.kind = "plan" /\ uniform_status = "Optimal") => PlanFeasible

\* A plan returned after a fairness solve that did not end Optimal, cutting
\* another number of pieces than demanded.
C1_FallThroughPlan ==
    /\ result.kind = "plan" /\ uniform_status \in OtherStatuses
    /\ ClaimPieces(patterns, x) # demand_quantity

\* A plan that uses two patterns of one stock entry and uses it up.
C1_Witness ==
    /\ result.kind = "plan" /\ uniform_status = "Optimal"
    /\ \E i \in 1..Len(x) :
          /\ Cardinality({j \in 1..Len(x[i]) : x[i][j] > 0}) >= 2
          /\ SumSeq(x[i]) = stock_quantities[i]

\* C2: when _find_min_waste returns w, no assignment of non-negative integers
\* within capacity and exact demand wastes less than w, and one wastes
\* exactly w.
C2_MinWasteMinimal ==
    (pc = "uniform" /\ waste_status = "Optimal") =>
        LET plans == ClaimFeasiblePlans(patterns, stock_quantities, demand_quantity) IN
        /\ \A xx \in plans : ClaimWaste(patterns, xx) >= min_waste
        /\ \E xx \in plans : ClaimWaste(patterns, xx) = min_waste

\* A positive minimum, below the waste of another feasible assignment.
C2_Witness ==
    /\ pc = "uniform" /\ waste_status = "Optimal"
    /\ min_waste > 0
    /\ \E xx \in ClaimFeasiblePlans(patterns, stock_quantities, demand_quantity) :
          ClaimWaste(patterns, xx) > min_waste

\* C3: whenever _find_min_waste returned a minimum w, the fairness program
\* has a feasible plan, and the plan returned wastes exactly w, which is the
\* total waste the result reports.
C3_FairnessKeepsWaste ==
    (pc = "done" /\ waste_status = "Optimal") =>
        /\ \E xx \in ClaimFeasiblePlans(patterns, stock_quantities, demand_quantity) :
              ClaimWaste(patterns, xx) = min_waste
        /\ result.kind = "plan" =>
              /\ ClaimWaste(patterns, x) = min_waste
              /\ result.total_waste = min_waste

\* The part of C3 the code keeps: when the fairness solve starts, the
\* fairness program has a feasible plan, and after an Optimal fairness solve
\* a plan is returned that wastes exactly w.
C3_OptimalKeepsWaste ==
    /\ (pc = "uniform" /\ waste_status = "Optimal") =>
          \E xx \in ClaimFeasiblePlans(patterns, stock_quantities, demand_quantity) :
              ClaimWaste(patterns, xx) = min_waste
    /\ (pc = "done" /\ waste_status = "Optimal" /\ uniform_status = "Optimal") =>
          /\ result.kind = "plan"
          /\ ClaimWaste(patterns, x) = min_waste
          /\ result.total_waste = min_waste

\* A returned plan with positive waste although an evener feasible plan,
\* wasting more, exists.
C3_Witness ==
    /\ pc = "done" /\ result.kind = "plan" /\ uniform_status = "Optimal" /\ min_waste > 0
    /\ \E xx \in ClaimFeasiblePlans(patterns, stock_quantities, demand_quantity) :
          /\ ClaimWaste(patterns, xx) > min_waste
          /\ ClaimSpread(xx) < ClaimSpread(x)

FairestPlan ==
    /\ \A xx \in ClaimFeasiblePlans(patterns, stock_quantities, demand_quantity) :
          ClaimWaste(patterns, xx) = min_waste => ClaimSpread(x) <= ClaimSpread(xx)
    /\ DOMAIN d = {p \in (1..Len(x)) \X (1..Len(x)) : p[1] < p[2]}
    /\ \A p \in DOMAIN d : d[p] = Abs(SumSeq(x[p[1]]) - SumSeq(x[p[2]]))

\* C4: no plan within capacity, exact demand and total waste = min_waste has
\* a smaller sum of pairwise absolute usage differences than the plan
\* returned, and every d[i][k] equals |used[i] - used[k]|.
C4_FairnessOptimal == result.kind = "plan" => FairestPlan

\* The part of C4 the code keeps: the plan returned after an Optimal
\* fairness solve is the fairest, with every d[i][k] = |used[i] - used[k]|.
C4_OptimalIsFairest ==
    (result.kind = "plan" /\ uniform_status = "Optimal") => FairestPlan

\* A feasible plan of minimum waste returned after a fairness solve that did
\* not end Optimal, although a more even such plan exists.
C4_FallThroughPlan ==
    /\ result.kind = "plan" /\ uniform_status \in OtherStatuses
    /\ x \in ClaimFeasiblePlans(patterns, stock_quantities, demand_quantity)
    /\ ClaimWaste(patterns, x) = min_waste
    /\ \E xx \in ClaimFeasiblePlans(patterns, stock_quantities, demand_quantity) :
          ClaimWaste(patterns, xx) = min_waste /\ ClaimSpread(xx) < ClaimSpread(x)

\* Three stock entries, unequal usage, and a waste-minimal plan that is
\* less even than the one returned.
C4_Witness ==
    /\ result.kind = "plan" /\ uniform_status = "Optimal"
    /\ Len(x) = 3
    /\ \E p \in DOMAIN d : d[p] > 0
    /\ \E xx \in ClaimFeasiblePlans(patterns, stock_quantities, demand_quantity) :
          ClaimWaste(patterns, xx) = min_waste /\ ClaimSpread(xx) > ClaimSpread(x)

\* The inputs the claim calls out of domain.
OutOfDomain(ui) ==
    \/ \E i \in 1..Len(ui.stock) : ui.stock[i][1] < 0 \/ ui.stock[i][2] < 0
    \/ \A i \in 1..Len(ui.stock) : ui.stock[i][2] <= 0
    \/ ui.demand_len <= 0
    \/ ui.demand_qty <= 0

PositiveEntries(ui) == SelectSeq(ui.stock, LAMBDA e : e[2] > 0)

\* C5: on out-of-domain input solve() returns a validation message and runs
\* neither pattern generation nor a solver; otherwise validation returns
\* "OK" and exactly the entries with quantity > 0 remain, in their order.
C5_ValidationFirst ==
    calls # <<>> =>
        IF OutOfDomain(user_input)
        THEN /\ calls = <<"_validate_data">>
             /\ pc = "done"
             /\ result.kind = "message"
             /\ result.text \in {MsgNegative, MsgEmptyStock, MsgEmptyOrder}
             /\ message = result.text
             /\ patterns = <<>> /\ waste_status = "" /\ uniform_status = ""
        ELSE /\ message = MsgOK
             /\ calls[1] = "_validate_data"
             /\ Len(stock_lengths) = Len(PositiveEntries(user_input))
             /\ Len(stock_quantities) = Len(PositiveEntries(user_input))
             /\ \A i \in 1..Len(stock_lengths) :
                   <<stock_lengths[i], stock_quantities[i]>> = PositiveEntries(user_input)[i]

\* A rejected empty order whose stock was fine, and an accepted inventory
\* from which a zero-quantity entry was dropped.
C5_WitnessRejected ==
    /\ pc = "done" /\ result.kind = "message" /\ result.text = MsgEmptyOrder
    /\ user_input.demand_qty = 0 /\ user_input.demand_len > 0

C5_Witness ==
    /\ message = MsgOK
    /\ Len(user_input.stock) = 3
    /\ Len(stock_lengths) = 2
    /\ user_input.stock[2][2] = 0
    /\ stock_lengths[1] # stock_lengths[2]

\* C8: for every stock length L and demand length D > 0 that pass validation
\* the pattern list of L holds a pattern for exactly the k = 1, 2, ... with
\* L - k*D >= 0, in increasing k, with waste L - k*D (here: no farther from
\* it than a hundredth), and is empty exactly when L < D.  L and D are the
\* decimals typed, in tenths.
C8_PatternsExact ==
    ppc = "done" =>
        /\ Len(float_patterns) = Len(decimal_input.stock)
        /\ \A i \in 1..Len(float_patterns) :
              LET L == decimal_input.stock[i]
                  D == decimal_input.demand_len IN
              /\ Len(float_patterns[i]) = L \div D
              /\ \A k \in 1..Len(float_patterns[i]) :
                    /\ float_patterns[i][k].pieces_count = k
                    /\ BigLess(float_patterns[i][k].waste,
                               TrueDivide(FromInt(10 * (L - k * D) + 1), 100))
                    /\ 10 * (L - k * D) >= 1 =>
                          BigLess(TrueDivide(FromInt(10 * (L - k * D) - 1), 100),
                                  float_patterns[i][k].waste)
              /\ (float_patterns[i] = <<>>) <=> (L < D)

\* C8 read on the doubles the lengths are parsed to: a pattern for exactly
\* the k with float(L) - k * float(D) >= 0 in exact arithmetic.
C8_PatternsExactOnDoubles ==
    ppc = "done" =>
        \A i \in 1..Len(float_patterns) :
            LET L == ParseFloat(decimal_input.stock[i])
                D == ParseFloat(decimal_input.demand_len) IN
            \A k \in 1..(MaxTenths + 1) :
                (k <= Len(float_patterns[i])) <=> ~BigLess(L, BigMulSmall(D, k))

\* The part of C8 the code keeps, on whole-number lengths: the pattern list
\* of L is exactly (k, L - k*D) for k = 1, 2, ... while L - k*D >= 0.
C8_WholeLengths ==
    pc \in {"min_waste", "uniform"} =>
        /\ Len(patterns) = Len(stock_lengths)
        /\ \A i \in 1..Len(patterns) :
              LET L == stock_lengths[i]
                  D == demand_length IN
              /\ {k \in 1..(L + 1) : L - k * D >= 0} = 1..Len(patterns[i])
              /\ \A k \in 1..Len(patterns[i]) :
                    /\ patterns[i][k].pieces_count = k
                    /\ patterns[i][k].waste = L - k * D
                    /\ patterns[i][k].waste >= 0
                    /\ k > 1 => patterns[i][k].waste < patterns[i][k - 1].waste
              /\ (patterns[i] = <<>>) <=> (L < D)

\* A list of two patterns ending in zero waste, a list of one and an empty
\* list.
C8_Witness ==
    /\ pc = "min_waste"
    /\ \E i \in 1..Len(patterns) :
          Len(patterns[i]) = 2 /\ patterns[i][1].waste = 1 /\ patterns[i][2].waste = 0
    /\ \E i \in 1..Len(patterns) : Len(patterns[i]) = 1
    /\ \E i \in 1..Len(patterns) : patterns[i] = <<>>

\* A pattern too few: 0.3 - 0.1 - 0.1 - 0.1 is negative in binary64.
C8_PatternMissing ==
    /\ ppc = "done"
    /\ \E i \in 1..Len(float_patterns) :
          Len(float_patterns[i]) < decimal_input.stock[i] \div decimal_input.demand_len

\* C9: only status Optimal is success: a plan is returned only when both
\* solves ended Optimal; an infeasible waste program (such as a single
\* stock entry shorter than the demand length) makes solve() return the
\* "cutting impossible" message; nothing else is ever returned.
C9_OnlyOptimalSucceeds ==
    (pc = "done" /\ message = MsgOK) =>
        /\ result.kind = "plan" => (waste_status = "Optimal" /\ uniform_status = "Optimal")
        /\ ClaimFeasiblePlans(patterns, stock_quantities, demand_quantity) = {}
              => result = [kind |-> "message", text |-> MsgImpossible]
        /\ result.kind \in {"plan", "message"}

\* The part of C9 the code keeps: a waste solve that ends Infeasible ends in
\* the "cutting impossible" message, and no plan is returned unless the
\* waste solve ended Optimal.
C9_InfeasibleWithPatterns ==
    (pc = "done" /\ message = MsgOK) =>
        /\ waste_status = "Infeasible"
              => result = [kind |-> "message", text |-> MsgImpossible]
        /\ result.kind = "plan" => waste_status = "Optimal"

\* A plan formatted after a fairness solve that did not end Optimal.
C9_PlanAfterNonOptimal ==
    /\ pc = "done" /\ result.kind = "plan"
    /\ waste_status = "Optimal" /\ uniform_status \in OtherStatuses

\* The fairness phase run on an undefined minimum waste: the waste solve
\* ended with a status other than Optimal and Infeasible.
C9_UniformOnNone ==
    /\ pc = "done" /\ waste_status \in OtherStatuses
    /\ calls[Len(calls)] = "_find_uniform_solution"
    /\ result = [kind |-> "TypeError"]

\* The inventory with the entries that have no pattern removed.
LiveIndices(pats) == {i \in 1..Len(pats) : pats[i] # <<>>}

Restrict(seq, pats) ==
    LET RECURSIVE Keep(_, _)
        Keep(i, out) ==
            IF i > Len(seq) THEN out
            ELSE Keep(i + 1, IF pats[i] # <<>> THEN Append(out, seq[i]) ELSE out) IN
    Keep(1, <<>>)

\* C10: an entry with no usable pattern changes nothing: the minimum waste
\* and the set of fairness-optimal plans (usage of the other entries) are
\* those of the inventory with that entry removed.
C10_DeadEntryIgnored ==
    (pc = "uniform" /\ waste_status = "Optimal"
       /\ LiveIndices(patterns) # 1..Len(patterns)) =>
        LET pats_r == WholeCuttingPatterns(Restrict(stock_lengths, patterns), demand_length)
            qs_r == Restrict(stock_quantities, patterns) IN
        /\ LpStatusOf(WasteFeasible(pats_r, qs_r, demand_quantity)) = "Optimal"
        /\ WasteObjective(pats_r, qs_r, demand_quantity) = min_waste
        /\ {Restrict(s.x, patterns) :
              s \in UniformOptimal(patterns, stock_quantities, demand_quantity, min_waste)}
           = {s.x : s \in UniformOptimal(pats_r, qs_r, demand_quantity, min_waste)}

\* The part of C10 the code keeps: the minimum waste is that of the
\* inventory without the entry.
C10_SameMinWaste ==
    (pc = "uniform" /\ waste_status = "Optimal"
       /\ LiveIndices(patterns) # 1..Len(patterns)) =>
        LET pats_r == WholeCuttingPatterns(Restrict(stock_lengths, patterns), demand_length)
            qs_r == Restrict(stock_quantities, patterns) IN
        WasteObjective(pats_r, qs_r, demand_quantity) = min_waste

\* ------------------------------------------------------------ the Cutter
\* The state after Cutter(user_input): lengths are positive (a stock bar and
\* a demanded piece have a length), quantities are any integer the form
\* can carry.
CutterInit ==
    /\ form \in
         [stock : UNION {[1..n -> (1..MaxCutLen) \X (-1..MaxCutQty)] : n \in 0..MaxStock},
          demand_len : 1..MaxDemandLen,
          demand_qty : -1..MaxCutDemandQty]
    /\ stock = StockDict(form.stock, 1, <<>>)
    /\ demand = <<form.demand_len, form.demand_qty>>
    /\ priority = PriorityStock(stock, demand[1])
    /\ errors = <<>>
    /\ answer = <<>>
    /\ output = [kind |-> "none"]
    /\ cpc = "calculate"
    /\ SolverIdle
    /\ PatternIdle

\* Cutter.calculate()
Calculate ==
    /\ cpc = "calculate"
    /\ errors' = CutterValidate(stock, demand)
    /\ IF errors' # <<>>
       THEN /\ output' = [kind |-> "errors", text |-> errors']
            /\ answer' = answer
       ELSE /\ answer' = Process(priority, demand)
            /\ output' = CutterFormat(priority, demand, answer')
    /\ cpc' = "done"
    /\ UNCHANGED <<form, stock, demand, priority>>
    /\ UNCHANGED solver_vars
    /\ UNCHANGED pattern_vars

CutterNext == Calculate

CutterSpec == CutterInit /\ [][CutterNext]_vars

\* ------------------------------------- _make_cutting_patterns on decimals
\* The state after Solver(user_input) and a passed validation, for lengths
\* typed with one digit after the point: stock lengths >= 0, demand
\* length > 0, all in tenths.
PatternInit ==
    /\ decimal_input \in
         [stock : UNION {[1..n -> 0..MaxTenths] : n \in 1..MaxDecimalStock},
          demand_len : 1..MaxTenths]
    /\ float_patterns = <<>>
    /\ ppc = "patterns"
    /\ SolverIdle
    /\ CutterIdle

\* Solver._make_cutting_patterns() on the parsed lengths
MakeFloatPatterns ==
    /\ ppc = "patterns"
    /\ float_patterns' =
          MakeCuttingPatterns([i \in 1..Len(decimal_input.stock) |->
                                 ParseFloat(decimal_input.stock[i])],
                              ParseFloat(decimal_input.demand_len))
    /\ ppc' = "done"
    /\ UNCHANGED decimal_input
    /\ UNCHANGED solver_vars
    /\ UNCHANGED cutter_vars

PatternNext == MakeFloatPatterns

PatternSpec == PatternInit /\ [][PatternNext]_vars

\* ------------------------------------------------------ the Cutter's claims
\* Every tuple within 0..available quantity, whatever the search enumerates.
ClaimTuples(prio) ==
    {t \in UNION {[1..Len(prio) -> 0..q] : q \in {0} \cup {prio[k][2] : k \in 1..Len(prio)}} :
        \A k \in 1..Len(prio) : t[k] <= prio[k][2]}

ClaimTotal(prio, t) == SumSeq([k \in 1..Len(prio) |-> t[k] * prio[k][1]])

ClaimExactTuples(prio, dem) ==
    {t \in ClaimTuples(prio) : ClaimTotal(prio, t) = dem[1] * dem[2]}

\* n^2 times the variance: the sum over all ordered pairs of (t[i] - t[k])^2,
\* halved.
ClaimVariance(t) ==
    SumSeq([i \in 1..Len(t) |->
              SumSeq([k \in 1..Len(t) |->
                        IF i < k THEN (t[i] - t[k]) * (t[i] - t[k]) ELSE 0])])

\* s comes before t in the order of itertools.product.
LexBefore(s, t) ==
    \E k \in 1..Len(s) : s[k] < t[k] /\ \A m \in 1..(k - 1) : s[m] = t[m]

\* C6: the tuple _process chooses satisfies sum u_i * L_i = demand length *
\* demand quantity within 0 <= u_i <= quantity, has the least variance of all
\* such tuples, is the first of them in enumeration order on a tie, and is
\* empty exactly when there is none.
C6_BestTuple ==
    (cpc = "done" /\ errors = <<>>) =>
        LET exact == ClaimExactTuples(priority, demand) IN
        /\ (answer = <<>>) <=> (exact = {})
        /\ answer # <<>> =>
              /\ answer \in exact
              /\ \A t \in exact :
                    /\ ClaimVariance(answer) <= ClaimVariance(t)
                    /\ (ClaimVariance(t) = ClaimVariance(answer) /\ t # answer)
                          => LexBefore(answer, t)

\* The part of C6 the code keeps: the chosen tuple is exact, no exact tuple
\* has a smaller variance, and the answer is empty exactly when there is no
\* exact tuple.
C6_LeastVariance ==
    (cpc = "done" /\ errors = <<>>) =>
        LET exact == ClaimExactTuples(priority, demand) IN
        /\ (answer = <<>>) <=> (exact = {})
        /\ answer # <<>> =>
              /\ answer \in exact
              /\ \A t \in exact : ClaimVariance(answer) <= ClaimVariance(t)

\* A tie on the least variance that an earlier tuple loses: np.var gives the
\* later tuple the smaller double.
C6_TieLost ==
    /\ cpc = "done" /\ errors = <<>> /\ answer # <<>>
    /\ \E t \in ClaimExactTuples(priority, demand) :
          /\ ClaimVariance(t) = ClaimVariance(answer)
          /\ LexBefore(t, answer)
          /\ BigLess(NpVar(answer), NpVar(t))

\* A tie on the least variance that the first tuple in enumeration order
\* wins, over three divisible lengths.
C6_TieKept ==
    /\ cpc = "done" /\ errors = <<>> /\ Len(priority) = 3 /\ answer # <<>>
    /\ \E t \in ClaimExactTuples(priority, demand) :
          t # answer /\ ClaimVariance(t) = ClaimVariance(answer)
    /\ \A t \in ClaimExactTuples(priority, demand) :
          (ClaimVariance(t) = ClaimVariance(answer) /\ t # answer) => LexBefore(answer, t)

AllDivisible == \A k \in 1..Len(stock) : stock[k][1] % demand[1] = 0

C7_Witness ==
    /\ cpc = "done" /\ errors = <<>> /\ AllDivisible
    /\ output.kind = "plan" /\ Len(stock) = 2
    /\ output.lines[1].times > 0 /\ output.lines[2].times > 0

=============================================================================
